---------------------------- MODULE Spec2Model ----------------------------
(***************************************************************************)
(* A model of src/main.py: the card validation helpers (identify_card_type,*)
(* check_expiry, luhn_check, calculate_score), the executor of the shapi   *)
(* module's callables (execute_all_shapi_functions) and the three request  *)
(* handlers that use them (/api/validate, /api/check, /api/shapi/execute). *)
(*                                                                         *)
(* A Python str is a sequence of one-character strings.  The alphabet of   *)
(* the inputs is the ten decimal digits, the letter "a", the blank " " and *)
(* the separator "|"; int() and str.isdigit() are modelled on that         *)
(* alphabet.  A dict is a record; dict.get(key, default) is Get.           *)
(***************************************************************************)
EXTENDS Integers, Sequences, FiniteSets, TLC

VARIABLES
    pc,              \* "idle", "gather" (the handler awaits asyncio.gather) or "done"
    call,            \* the operation in hand and its arguments
    ret,             \* what it returned (NoRet while it is in flight)
    shapi,           \* the shapi module seen by the running executor: attribute name -> kind
    function_names,  \* execute_all_shapi_functions: the discovered names, in dir() order
    completed,       \* one slot per task of asyncio.gather: "pending" or the task's (name, result)
    invoked,         \* how many times each discovered callable has been called
    order            \* the task indices in the order the event loop ran them

vars == <<pc, call, ret, shapi, function_names, completed, invoked, order>>

-----------------------------------------------------------------------------
(* Bounds of the model.                                                    *)

\* Account numbers handed to luhn_check: every digit string up to this length.
MaxPanLen == 3
\* The largest months_remaining handed to calculate_score directly.
MaxMonths == 130
\* The number of public names the shapi module may export.
MaxCallables == 3

-----------------------------------------------------------------------------
(* Python's str, int and slicing.                                          *)

DigitChars == <<"0", "1", "2", "3", "4", "5", "6", "7", "8", "9">>
Digits == {DigitChars[i] : i \in 1..10}

Min(a, b) == IF a <= b THEN a ELSE b
Max(a, b) == IF a >= b THEN a ELSE b

\* The string of a tuple of digit values: D(<<4, 1>>) is "41".
D(ds) == [i \in 1..Len(ds) |-> DigitChars[ds[i] + 1]]

\* n copies of the character c.
Rep(c, n) == [i \in 1..n |-> c]

DigitVal(c) == CHOOSE v \in 0..9 : DigitChars[v + 1] = c

\* str.isdigit(): non-empty and every character a digit.
IsDigit(s) == Len(s) > 0 /\ \A i \in 1..Len(s) : s[i] \in Digits

\* s[:n] and s[-n:].
Prefix(s, n) == SubSeq(s, 1, Min(n, Len(s)))
Suffix(s, n) == SubSeq(s, Max(1, Len(s) - n + 1), Len(s))

\* s.startswith(p), and s.startswith((p1, p2, ...)).
StartsWith(s, p) == Len(s) >= Len(p) /\ SubSeq(s, 1, Len(p)) = p
StartsWithAny(s, ps) == \E p \in ps : StartsWith(s, p)

\* str.strip(): the blanks at both ends removed.
RECURSIVE LStrip(_)
LStrip(s) == IF s # <<>> /\ Head(s) = " " THEN LStrip(Tail(s)) ELSE s
RECURSIVE RStrip(_)
RStrip(s) == IF s # <<>> /\ s[Len(s)] = " " THEN RStrip(SubSeq(s, 1, Len(s) - 1)) ELSE s
Strip(s) == RStrip(LStrip(s))

\* str.split("|"): the pieces between the separators, empty pieces kept.
RECURSIVE SplitFrom(_, _)
SplitFrom(s, piece) ==
    IF s = <<>> THEN <<piece>>
    ELSE IF Head(s) = "|" THEN <<piece>> \o SplitFrom(Tail(s), <<>>)
    ELSE SplitFrom(Tail(s), Append(piece, Head(s)))
Split(s) == SplitFrom(s, <<>>)

\* "|".join(parts): how a descriptor is written from its fields.
RECURSIVE Join(_)
Join(parts) ==
    IF parts = <<>> THEN <<>>
    ELSE IF Len(parts) = 1 THEN parts[1]
    ELSE parts[1] \o <<"|">> \o Join(Tail(parts))

\* int(s): the blanks at both ends are ignored; ValueError unless the rest is a
\* digit string.
IntRaises(s) == ~IsDigit(Strip(s))
RECURSIVE DecimalValue(_)
DecimalValue(s) ==
    IF s = <<>> THEN 0 ELSE DecimalValue(SubSeq(s, 1, Len(s) - 1)) * 10 + DigitVal(s[Len(s)])
IntOf(s) == DecimalValue(Strip(s))

\* str(n) for n >= 0.
RECURSIVE StrOf(_)
StrOf(n) == IF n < 10 THEN <<DigitChars[n + 1]>> ELSE Append(StrOf(n \div 10), DigitChars[(n % 10) + 1])

\* f"{n:02d}": at least two digits, padded with "0".
Fmt02d(n) == IF n < 10 THEN <<"0">> \o StrOf(n) ELSE StrOf(n)

\* dict.get(key, default).
Get(d, key, default) == IF key \in DOMAIN d THEN d[key] ELSE default

RECURSIVE SumSeq(_)
SumSeq(s) == IF s = <<>> THEN 0 ELSE Head(s) + SumSeq(Tail(s))

\* digits[i::-2]: the items at i, i-2, ... (1-based i, from the left).
RECURSIVE SliceBack(_, _)
SliceBack(s, i) == IF i < 1 THEN <<>> ELSE <<s[i]>> \o SliceBack(s, i - 2)

-----------------------------------------------------------------------------
(* identify_card_type.  The result is the network tag, or the ValueError   *)
(* that int(first_six) raises.                                             *)

ValueError == "raised ValueError"

MasterCardPrefixes == {D(<<5, 1>>), D(<<5, 2>>), D(<<5, 3>>), D(<<5, 4>>), D(<<5, 5>>)}
AmexPrefixes == {D(<<3, 4>>), D(<<3, 7>>)}
DinersPrefixes ==
    {D(<<3, 0, 0>>), D(<<3, 0, 1>>), D(<<3, 0, 2>>), D(<<3, 0, 3>>), D(<<3, 0, 4>>),
     D(<<3, 0, 5>>), D(<<3, 6>>), D(<<3, 8>>)}
DiscoverPrefixes ==
    {D(<<6, 0, 1, 1>>), D(<<6, 5>>), D(<<6, 4, 4>>), D(<<6, 4, 5>>), D(<<6, 4, 6>>),
     D(<<6, 4, 7>>), D(<<6, 4, 8>>), D(<<6, 4, 9>>), D(<<6, 2, 2>>)}
MaestroPrefixes ==
    {D(<<5, 0>>), D(<<5, 6>>), D(<<5, 7>>), D(<<5, 8>>), D(<<6, 3>>), D(<<6, 7>>)}
DiscoverRangeLo == 622126
DiscoverRangeHi == 622925

identify_card_type(card_number) ==
    LET first_six == Prefix(card_number, 6) IN
    IF StartsWith(card_number, D(<<4>>)) THEN "VISA"
    ELSE IF StartsWithAny(card_number, MasterCardPrefixes) THEN "MasterCard"
    ELSE IF StartsWithAny(card_number, AmexPrefixes) THEN "American Express"
    ELSE IF StartsWithAny(card_number, DinersPrefixes) THEN "Diners Club"
    ELSE IF StartsWithAny(card_number, DiscoverPrefixes) THEN "Discover"
    ELSE IF IntRaises(first_six) THEN ValueError
    ELSE IF DiscoverRangeLo <= IntOf(first_six) /\ IntOf(first_six) <= DiscoverRangeHi
         THEN "Discover"
    ELSE IF StartsWith(card_number, D(<<3, 5>>)) THEN "JCB"
    ELSE IF StartsWithAny(card_number, MaestroPrefixes) THEN "Maestro"
    ELSE "Unknown"

-----------------------------------------------------------------------------
(* check_expiry.  current_year and current_month are the two values read   *)
(* from datetime.now().                                                    *)

ExpiryFormatError == [valid |-> FALSE, reason |-> "Invalid date format"]

\* check_expiry with the month test #exp_month <= current_month#: a card is taken
\* as expired in its last month.
check_expiry_ExpiredInLastMonth(month, year, current_year, current_month) ==
    LET year_text == IF Len(year) = 2 THEN D(<<2, 0>>) \o year ELSE year IN
    IF IntRaises(year_text) \/ IntRaises(month) THEN ExpiryFormatError
    ELSE
        LET exp_year == IntOf(year_text)
            exp_month == IntOf(month)
        IN
        IF exp_month < 1 \/ exp_month > 12
            THEN [valid |-> FALSE, reason |-> "Invalid month"]
        ELSE IF exp_year < current_year
            THEN [valid |-> FALSE, reason |-> "Card expired (year)"]
        ELSE IF exp_year = current_year /\ exp_month <= current_month
            THEN [valid |-> FALSE, reason |-> "Card expired (month)"]
        ELSE [valid |-> TRUE,
              months_remaining |-> (exp_year - current_year) * 12 + (exp_month - current_month),
              expiry_date |-> Fmt02d(exp_month) \o <<"/">> \o Suffix(StrOf(exp_year), 2)]

check_expiry(month, year, current_year, current_month) ==
    LET year_text == IF Len(year) = 2 THEN D(<<2, 0>>) \o year ELSE year IN
    IF IntRaises(year_text) \/ IntRaises(month) THEN ExpiryFormatError
    ELSE
        LET exp_year == IntOf(year_text)
            exp_month == IntOf(month)
        IN
        IF exp_month < 1 \/ exp_month > 12
            THEN [valid |-> FALSE, reason |-> "Invalid month"]
        ELSE IF exp_year < current_year
            THEN [valid |-> FALSE, reason |-> "Card expired (year)"]
        ELSE IF exp_year = current_year /\ exp_month < current_month
            THEN [valid |-> FALSE, reason |-> "Card expired (month)"]
        ELSE [valid |-> TRUE,
              months_remaining |-> (exp_year - current_year) * 12 + (exp_month - current_month),
              expiry_date |-> Fmt02d(exp_month) \o <<"/">> \o Suffix(StrOf(exp_year), 2)]

-----------------------------------------------------------------------------
(* luhn_check.                                                             *)

LuhnError == [valid |-> FALSE, reason |-> "Calculation error"]

\* A doubling that is added as it is, its two digits never summed.
DoubledDigitSum_Unfolded(digit) == digit * 2

\* for d in str(digit * 2): total += int(d)
DoubledDigitSum(digit) ==
    LET text == StrOf(digit * 2) IN SumSeq([i \in 1..Len(text) |-> IntOf(<<text[i]>>)])

luhn_total(digits) ==
    LET odd_digits == SliceBack(digits, Len(digits))
        even_digits == SliceBack(digits, Len(digits) - 1)
    IN SumSeq(odd_digits) + SumSeq([i \in 1..Len(even_digits) |-> DoubledDigitSum(even_digits[i])])

calculated_check(total) == (10 - (total % 10)) % 10

luhn_check(card_number) ==
    IF \E i \in 1..Len(card_number) : IntRaises(<<card_number[i]>>) THEN LuhnError
    ELSE IF card_number = <<>> THEN LuhnError   \* digits[-1] raises IndexError
    ELSE
        LET digits == [i \in 1..Len(card_number) |-> IntOf(<<card_number[i]>>)]
            total == luhn_total(digits)
        IN [valid |-> (total % 10 = 0),
            check_digit |-> digits[Len(digits)],
            calculated_check |-> calculated_check(total)]

-----------------------------------------------------------------------------
(* calculate_score.                                                        *)

\* calculate_score without the 20 points of the format check.
calculate_score_NoFormatPoints(luhn_result, expiry_result) ==
    LET luhn_points == IF Get(luhn_result, "valid", FALSE) THEN 40 ELSE 0
        months == Get(expiry_result, "months_remaining", 0)
        expiry_points ==
            IF Get(expiry_result, "valid", FALSE)
                THEN 40 + (IF months > 12 THEN Min(10, months \div 12) ELSE 0)
                ELSE 0
    IN Min(100, luhn_points + expiry_points)

calculate_score(luhn_result, expiry_result) ==
    LET luhn_points == IF Get(luhn_result, "valid", FALSE) THEN 40 ELSE 0
        months == Get(expiry_result, "months_remaining", 0)
        expiry_points ==
            IF Get(expiry_result, "valid", FALSE)
                THEN 40 + (IF months > 12 THEN Min(10, months \div 12) ELSE 0)
                ELSE 0
    IN Min(100, luhn_points + expiry_points + 20)

-----------------------------------------------------------------------------
(* The shapi module and execute_all_shapi_functions.                       *)
(*                                                                         *)
(* The module is a function from the attribute names it has to what the    *)
(* attribute does when called: "returns", "raises" (an Exception), or      *)
(* "data" for an attribute that is not callable.                           *)

PublicName(i) == <<"f", DigitChars[i + 1]>>
PrivateName == <<"_", "f">>
\* dir(shapi) lists the names in sorted order.
AllNames == <<PrivateName>> \o [i \in 1..MaxCallables |-> PublicName(i)]
Has(mod, name) == name \in DOMAIN mod
dir(mod) == SelectSeq(AllNames, LAMBDA name : Has(mod, name))
callable(mod, name) == mod[name] \in {"returns", "raises"}

\* The loop over dir(shapi): the public names whose attribute is callable.
discover(mod) ==
    SelectSeq(dir(mod), LAMBDA name : ~StartsWith(name, <<"_">>) /\ callable(mod, name))

Pending == <<>>

\* execute_function(func_name): the pair the task returns.
execute_function(mod, func_name) ==
    IF mod[func_name] = "returns"
        THEN <<func_name, [success |-> TRUE, result |-> "value"]>>
        ELSE <<func_name, [success |-> FALSE, error |-> "str(e)"]>>

\* A task group in which the first failure cancels the tasks still pending.
task_done_CancelSiblings(slots, names, i, outcome) ==
    [j \in 1..Len(slots) |->
        IF j = i THEN outcome
        ELSE IF slots[j] = Pending /\ ~outcome[2].success
            THEN <<names[j], [success |-> FALSE, error |-> "cancelled"]>>
        ELSE slots[j]]

\* The task at index i is done: gather keeps its result at the task's own index.
task_done(slots, names, i, outcome) == [slots EXCEPT ![i] = outcome]

\* await asyncio.gather(*tasks) returns once no task is pending.
gather_returns(slots) == \A i \in 1..Len(slots) : slots[i] # Pending

Put(d, key, value) == [k \in DOMAIN d \cup {key} |-> IF k = key THEN value ELSE d[k]]

\* A loop that keeps only the results of the callables that succeeded.
RECURSIVE collect_SkipFailed(_)
collect_SkipFailed(done) ==
    IF done = <<>> THEN [results |-> <<>>, errors |-> <<>>]
    ELSE
        LET before == collect_SkipFailed(SubSeq(done, 1, Len(done) - 1))
            func_name == done[Len(done)][1]
            result == done[Len(done)][2]
        IN [results |-> IF result.success THEN Put(before.results, func_name, result)
                        ELSE before.results,
            errors |-> IF ~result.success THEN Append(before.errors, func_name) ELSE before.errors]

\* for func_name, result in completed: results[func_name] = result; ...
RECURSIVE collect_loop(_)
collect_loop(done) ==
    IF done = <<>> THEN [results |-> <<>>, errors |-> <<>>]
    ELSE
        LET before == collect_loop(SubSeq(done, 1, Len(done) - 1))
            func_name == done[Len(done)][1]
            result == done[Len(done)][2]
        IN [results |-> Put(before.results, func_name, result),
            errors |-> IF ~result.success THEN Append(before.errors, func_name) ELSE before.errors]

collect(done) == collect_loop(done)

\* The dict execute_all_shapi_functions returns.
execution_report(names, done) ==
    LET c == collect(done) IN
    [total_functions |-> Len(names),
     executed |-> Cardinality(DOMAIN c.results),
     successful |-> Cardinality(DOMAIN c.results) - Len(c.errors),
     failed |-> Len(c.errors),
     errors |-> c.errors,
     results |-> c.results]

\* The handlers' loop over sample_functions: the names the module has are
\* called, and a failure is recorded in place of the value.
sample_functions == <<PublicName(1), PublicName(2)>>
run_samples(mod, on_error) ==
    LET present == {sample_functions[i] : i \in {j \in 1..Len(sample_functions) : Has(mod, sample_functions[j])}}
    IN [name \in present |-> IF mod[name] = "returns" THEN "value" ELSE on_error]

-----------------------------------------------------------------------------
(* The request handlers.  A handler's body either returns a value or       *)
(* raises; Returned and Raised are the two outcomes.                       *)

Returned(value) == [raised |-> FALSE, value |-> value]
Raised(exception) == [raised |-> TRUE, exception |-> exception]
HTTPException(status_code, detail) ==
    [type |-> "HTTPException", status_code |-> status_code, detail |-> detail]
OtherException(name) == [type |-> name, status_code |-> 0, detail |-> name]

\* What the client gets.
Response(status, body) == [status |-> status, body |-> body]

\* card_parts = cc.split("|") and the four stripped fields.
card_parts(cc) == Split(cc)
field(cc, i) == Strip(card_parts(cc)[i])

\* The body of validate_cc_only inside its try.
validate_body(cc, now, mod) ==
    IF Len(card_parts(cc)) # 4 THEN Raised(HTTPException(400, "Format: number|mm|yy|cvv"))
    ELSE
        LET card_number == field(cc, 1)
            expiry_month == field(cc, 2)
            expiry_year == field(cc, 3)
            cvv == field(cc, 4)
            card_type == identify_card_type(card_number)
            luhn_result == luhn_check(card_number)
            expiry_result == check_expiry(expiry_month, expiry_year, now[1], now[2])
            shapi_samples == run_samples(mod, "None")
            overall_score == calculate_score(luhn_result, expiry_result)
        IN
        IF card_type = ValueError THEN Raised(OtherException("ValueError"))
        ELSE Returned(
            [success |-> TRUE,
             card_info |-> [type |-> card_type,
                            bin |-> Prefix(card_number, 6),
                            last4 |-> Suffix(card_number, 4),
                            length |-> Len(card_number),
                            expiry |-> Get(expiry_result, "expiry_date", "invalid"),
                            cvv_length |-> Len(cvv)],
             validation |-> [luhn_algorithm |-> luhn_result,
                             expiry_check |-> expiry_result,
                             overall_score |-> overall_score,
                             overall_valid |-> Get(luhn_result, "valid", FALSE)
                                               /\ Get(expiry_result, "valid", FALSE)],
             shapi_sample |-> [functions_tested |-> Cardinality(DOMAIN shapi_samples),
                               results |-> shapi_samples]])

\* validate_cc_only: #except Exception# catches whatever the body raises, the
\* HTTPException of the field count too, and answers 500.
validate_cc_only(cc, now, mod) ==
    LET r == validate_body(cc, now, mod) IN
    IF r.raised THEN Response(500, [detail |-> r.exception.detail])
    ELSE Response(200, r.value)

\* check_cc_comprehensive up to the shapi execution: what is raised before it.
check_raises(cc) ==
    IF Len(card_parts(cc)) # 4 THEN Raised(HTTPException(400, "Format: number|mm|yy|cvv"))
    ELSE IF ~IsDigit(field(cc, 1)) THEN Raised(HTTPException(400, "Card number must be digits"))
    ELSE IF identify_card_type(field(cc, 1)) = ValueError THEN Raised(OtherException("ValueError"))
    ELSE Returned("passed")

\* The site check: no site given, a response, or any failure of the request.
site_info(site) ==
    IF site = "none" THEN [checked |-> FALSE]
    ELSE IF site = "responds" THEN [status |-> 200]
    ELSE [error |-> "str(e)", status |-> "failed"]

\* The response check_cc_comprehensive builds once shapi_execution is known.
check_response(cc, site, now, shapi_execution) ==
    LET card_number == field(cc, 1)
        cvv == field(cc, 4)
        luhn_result == luhn_check(card_number)
        expiry_result == check_expiry(field(cc, 2), field(cc, 3), now[1], now[2])
    IN
    [success |-> TRUE,
     card |-> [masked |-> Prefix(card_number, 6) \o Rep("*", 6) \o Suffix(card_number, 4),
               type |-> identify_card_type(card_number),
               bin |-> Prefix(card_number, 6),
               last4 |-> Suffix(card_number, 4),
               length |-> Len(card_number)],
     validation |-> [luhn_check |-> luhn_result,
                     expiry_check |-> expiry_result,
                     cvv_valid |-> Len(cvv) \in {3, 4} /\ IsDigit(cvv),
                     overall_score |-> calculate_score(luhn_result, expiry_result)],
     site |-> site_info(site),
     shapi |-> [execution |-> shapi_execution]]

\* #except HTTPException: raise# keeps the status of an HTTPException; any other
\* exception is answered 500.
check_error(exception) ==
    IF exception.type = "HTTPException"
        THEN Response(exception.status_code, [detail |-> exception.detail])
        ELSE Response(500, [detail |-> exception.detail])

-----------------------------------------------------------------------------
(* The inputs of the helpers.                                              *)

NoRet == [pending |-> TRUE]
NoModule == <<>>

\* The account numbers of the spec's examples and some malformed ones.
PanValid == D(<<4, 1, 1, 1, 1, 1, 1, 1, 1, 1, 1, 1, 1, 1, 1, 1>>)
PanAltered == D(<<4, 1, 1, 1, 1, 1, 1, 1, 1, 1, 1, 1, 1, 1, 1, 2>>)
PanNonDigit == D(<<4, 1, 1, 1, 1, 1, 1, 1, 1, 1, 1, 1, 1, 1>>) \o <<"a">> \o D(<<1>>)
PanLetters == <<"a", "a", "a">>
PanMasterCard == D(<<5, 5, 0, 0, 0, 0, 0, 0, 0, 0, 0, 0, 0, 0, 0, 4>>)
PanAmex == D(<<3, 4, 0, 0, 0, 0, 0, 0, 0, 0, 0, 0, 0, 0, 9>>)
PanUnionPay == D(<<6, 2, 2, 0>>) \o Rep("0", 12)
SamplePans == {PanValid, PanAltered, PanNonDigit, PanLetters, PanMasterCard, PanAmex, PanUnionPay, <<>>}

DigitStrings(n) == [1..n -> Digits]
\* Every short digit string, the examples, and the sixteen-digit numbers that
\* differ from 4111111111111111 in their last two digits.
LuhnInputs ==
    UNION {DigitStrings(n) : n \in 1..MaxPanLen}
        \cup SamplePans
        \cup {Prefix(PanValid, 14) \o t : t \in DigitStrings(2)}

\* Account numbers of 15 and 19 characters: every three-digit prefix, followed by
\* three digits that reach the ends of the six-digit range and the four-digit
\* prefix, and zeros.
BinTails ==
    {D(<<0, 0, 0>>), D(<<1, 0, 0>>), D(<<1, 2, 5>>), D(<<1, 2, 6>>), D(<<9, 2, 5>>), D(<<9, 2, 6>>)}
PanLengths == {15, 19}
ClassifyInputs ==
    {p \o t \o Rep("0", n - 6) : p \in DigitStrings(3), t \in BinTails, n \in PanLengths}
        \cup SamplePans

MonthInputs == DigitStrings(1) \cup DigitStrings(2) \cup {D(<<0, 0, 5>>), <<"1", "a">>, <<>>}
YearInputs ==
    {<<a, b>> : a \in {"0", "2", "3", "9"}, b \in {"0", "4", "5", "9"}}
        \cup {D(<<2, 0, 2, 4>>), D(<<2, 0, 2, 5>>), D(<<2, 0, 3, 0>>), D(<<1, 9, 9, 9>>),
              D(<<0, 0, 2, 4>>), D(<<2, 4, 0>>), <<"2", "a">>}
Nows == {<<2024, 6>>, <<2024, 12>>, <<2025, 1>>}

LuhnResults == {luhn_check(p) : p \in {PanValid, PanAltered, PanNonDigit}}
ExpiryResults ==
    {check_expiry(m, y, 2024, 6) : m \in {D(<<0, 5>>), D(<<0, 6>>), D(<<1, 3>>), <<"1", "a">>},
                                   y \in {D(<<2, 4>>), D(<<2, 3>>), D(<<3, 0>>)}}
        \cup {[valid |-> TRUE, months_remaining |-> m, expiry_date |-> D(<<0, 1>>) \o <<"/">> \o D(<<3, 0>>)] :
                  m \in 0..MaxMonths}

\* Every module over the names: a public name is absent, returns, raises or is
\* data; the private name is absent or a callable.
AttributeKinds == {"returns", "raises", "data"}
NameSet == {AllNames[i] : i \in 1..Len(AllNames)}
Modules ==
    {mod \in UNION {[A -> AttributeKinds] : A \in SUBSET NameSet} :
        Has(mod, PrivateName) => mod[PrivateName] = "returns"}

\* The modules the card handlers are run against.
SmallModules ==
    {NoModule,
     (PublicName(1) :> "returns") @@ (PublicName(2) :> "raises"),
     (PublicName(1) :> "data")}

\* The descriptors: every choice of four fields, and descriptors of three and
\* five fields and the empty one.
PanShort == Rep("4", 14)
PanLong == Rep("4", 20)
PanBlanks == <<" ">> \o PanValid \o <<" ">>
CardFields == {PanValid, PanAltered, PanNonDigit, PanLetters, PanShort, PanLong, PanBlanks}
MonthFields == {D(<<0, 6>>), D(<<1, 3>>), <<"1", "a">>}
YearFields == {D(<<2, 4>>), D(<<3, 5>>), <<"2", "a">>}
CvvFields == {D(<<1, 2, 3>>), D(<<1, 2, 3, 4>>), D(<<1, 2>>), D(<<1, 2, 3, 4, 5>>), <<"1", "2", "a">>}
Descriptors ==
    {Join(<<c, m, y, v>>) : c \in CardFields, m \in MonthFields, y \in YearFields, v \in CvvFields}
        \cup {Join(<<D(<<1, 2, 3>>), D(<<0, 5>>), D(<<2, 4>>)>>),
              Join(<<PanValid, D(<<0, 6>>), D(<<2, 4>>), D(<<1, 2, 3>>), D(<<1>>)>>),
              <<>>}
HandlerNows == {<<2024, 6>>}
Sites == {"none", "responds", "fails"}

-----------------------------------------------------------------------------
(* The state after the module is loaded: no request in hand.               *)

\* An operation that runs to its end in one step and leaves its result.
Returns(op_call, op_ret) ==
    /\ pc' = "done"
    /\ call' = op_call
    /\ ret' = op_ret
    /\ shapi' = NoModule
    /\ function_names' = <<>>
    /\ completed' = <<>>
    /\ invoked' = <<>>
    /\ order' = <<>>

Init ==
    /\ pc = "idle"
    /\ call = [op |-> "none"]
    /\ ret = NoRet
    /\ shapi = NoModule
    /\ function_names = <<>>
    /\ completed = <<>>
    /\ invoked = <<>>
    /\ order = <<>>

(* One call of each helper, on its own.                                    *)

LuhnCheck ==
    /\ pc = "idle"
    /\ \E card_number \in LuhnInputs :
           Returns([op |-> "luhn_check", card_number |-> card_number], luhn_check(card_number))

IdentifyCardType ==
    /\ pc = "idle"
    /\ \E card_number \in ClassifyInputs :
           Returns([op |-> "identify_card_type", card_number |-> card_number],
                [card_type |-> identify_card_type(card_number)])

CheckExpiry ==
    /\ pc = "idle"
    /\ \E month \in MonthInputs, year \in YearInputs, now \in Nows :
           Returns([op |-> "check_expiry", month |-> month, year |-> year,
                 current_year |-> now[1], current_month |-> now[2]],
                check_expiry(month, year, now[1], now[2]))

CalculateScore ==
    /\ pc = "idle"
    /\ \E luhn_result \in LuhnResults, expiry_result \in ExpiryResults :
           Returns([op |-> "calculate_score", luhn_result |-> luhn_result,
                 expiry_result |-> expiry_result],
                [score |-> calculate_score(luhn_result, expiry_result)])

(* The request handlers.                                                   *)

ValidateCC ==
    /\ pc = "idle"
    /\ \E cc \in Descriptors, now \in HandlerNows, mod \in SmallModules :
           Returns([op |-> "/api/validate", cc |-> cc, now |-> now, mod |-> mod],
                   validate_cc_only(cc, now, mod))

\* execute_all_shapi_functions up to its await: the names are discovered and one
\* task is made for each.
StartExecution(op_call, mod) ==
    /\ pc' = "gather"
    /\ call' = op_call
    /\ ret' = NoRet
    /\ shapi' = mod
    /\ function_names' = discover(mod)
    /\ completed' = [i \in 1..Len(discover(mod)) |-> Pending]
    /\ invoked' = [name \in {discover(mod)[i] : i \in 1..Len(discover(mod))} |-> 0]
    /\ order' = <<>>

CheckCC ==
    /\ pc = "idle"
    /\ \E cc \in Descriptors, site \in Sites, full_shapi \in BOOLEAN,
          now \in HandlerNows, mod \in SmallModules :
           LET op_call == [op |-> "/api/check", cc |-> cc, site |-> site,
                           full_shapi |-> full_shapi, now |-> now, mod |-> mod]
               r == check_raises(cc)
               samples == run_samples(mod, "Error: str(e)")
           IN
           IF r.raised THEN Returns(op_call, check_error(r.exception))
           ELSE IF full_shapi THEN StartExecution(op_call, mod)
           ELSE Returns(op_call,
                        Response(200, check_response(cc, site, now,
                            [mode |-> "sample",
                             functions_executed |-> Cardinality(DOMAIN samples),
                             results |-> samples])))

ExecuteShapi ==
    /\ pc = "idle"
    /\ \E mod \in Modules : StartExecution([op |-> "/api/shapi/execute"], mod)

\* The event loop runs one of the pending tasks; the task has no await, so it
\* runs to its end.
RunTask ==
    /\ pc = "gather"
    /\ \E i \in 1..Len(completed) :
           /\ completed[i] = Pending
           /\ completed' = task_done(completed, function_names, i,
                                      execute_function(shapi, function_names[i]))
           /\ invoked' = [invoked EXCEPT ![function_names[i]] = @ + 1]
           /\ order' = Append(order, i)
    /\ UNCHANGED <<pc, call, ret, shapi, function_names>>

\* gather returns; the results are collected, the report is built and the
\* handler that awaited it answers.
GatherReturns ==
    /\ pc = "gather"
    /\ gather_returns(completed)
    /\ pc' = "done"
    /\ ret' = LET report == execution_report(function_names, completed) IN
              IF call.op = "/api/shapi/execute"
                  THEN Response(200, [success |-> TRUE, execution_summary |-> report])
                  ELSE Response(200, check_response(call.cc, call.site, call.now, report))
    /\ UNCHANGED <<call, shapi, function_names, completed, invoked, order>>

\* The result is handed over and nothing of the request is kept.
Discard ==
    /\ pc = "done"
    /\ pc' = "idle"
    /\ call' = [op |-> "none"]
    /\ ret' = NoRet
    /\ shapi' = NoModule
    /\ function_names' = <<>>
    /\ completed' = <<>>
    /\ invoked' = <<>>
    /\ order' = <<>>

Next ==
    \/ Discard
    \/ LuhnCheck
    \/ IdentifyCardType
    \/ CheckExpiry
    \/ CalculateScore
    \/ ValidateCC
    \/ CheckCC
    \/ ExecuteShapi
    \/ RunTask
    \/ GatherReturns

Spec == Init /\ [][Next]_vars

-----------------------------------------------------------------------------
(* The properties checked of the helpers.                                  *)

Last(s) == s[Len(s)]
ReplaceLast(s, c) == [s EXCEPT ![Len(s)] = c]

\* The Luhn total as the specification words it: the digit at position p from the
\* right (1-indexed) is added unchanged when p is odd; when p is even it is
\* doubled, and 9 is subtracted when the doubling exceeds 9.
LuhnTerm(card_number, p) ==
    LET d == DigitVal(card_number[Len(card_number) - p + 1]) IN
    IF p % 2 = 1 THEN d ELSE IF 2 * d > 9 THEN 2 * d - 9 ELSE 2 * d
LuhnSum(card_number) == SumSeq([p \in 1..Len(card_number) |-> LuhnTerm(card_number, p)])

LuhnCalled == pc = "done" /\ call.op = "luhn_check" /\ IsDigit(call.card_number)

\* C2: for every all-digit account number luhn_check reports valid = true iff the
\* Luhn total is 0 mod 10, and check_digit is the last digit of the input.
C2_LuhnValidIffTotalDivisible ==
    LuhnCalled =>
        /\ ret.valid = (LuhnSum(call.card_number) % 10 = 0)
        /\ ret.check_digit = DigitVal(Last(call.card_number))

C2_Witness ==
    /\ LuhnCalled
    /\ call.card_number = PanValid
    /\ ret.valid
    /\ ret.check_digit = 1

\* C3: replacing the last digit of an all-digit account number by the calculated
\* check digit gives a number that luhn_check reports valid, and for
\* 4111111111111112 the result is invalid with expected check digit 1.
C3_ExpectedCheckDigitMakesValid ==
    LuhnCalled =>
        /\ luhn_check(ReplaceLast(call.card_number, DigitChars[ret.calculated_check + 1])).valid
        /\ call.card_number = PanAltered => (~ret.valid /\ ret.calculated_check = 1)

\* The network of the specification's table for an all-digit account number. No
\* two rules of different networks match the same number, so the most specific
\* matching rule is the only matching rule.
SpecDiscover(card_number) ==
    \/ StartsWithAny(card_number, {D(<<6, 0, 1, 1>>), D(<<6, 5>>), D(<<6, 4, 4>>), D(<<6, 4, 5>>),
                                   D(<<6, 4, 6>>), D(<<6, 4, 7>>), D(<<6, 4, 8>>), D(<<6, 4, 9>>)})
    \/ DecimalValue(Prefix(card_number, 6)) \in 622126..622925
SpecCardType(card_number) ==
    IF StartsWith(card_number, D(<<4>>)) THEN "VISA"
    ELSE IF DecimalValue(Prefix(card_number, 2)) \in 51..55 THEN "MasterCard"
    ELSE IF DecimalValue(Prefix(card_number, 2)) \in {34, 37} THEN "American Express"
    ELSE IF \/ DecimalValue(Prefix(card_number, 3)) \in 300..305
            \/ DecimalValue(Prefix(card_number, 2)) \in {36, 38} THEN "Diners Club"
    ELSE IF SpecDiscover(card_number) THEN "Discover"
    ELSE IF DecimalValue(Prefix(card_number, 2)) = 35 THEN "JCB"
    ELSE IF DecimalValue(Prefix(card_number, 2)) \in {50, 56, 57, 58, 63, 67} THEN "Maestro"
    ELSE "Unknown"

\* C4: for every all-digit account number of 15 to 19 digits identify_card_type
\* returns the network of the specification's table, with Discover exactly for
\* 6011, 65, 644-649 and the first six digits in 622126..622925.
C4_ClassifierFollowsTable ==
    (/\ pc = "done"
     /\ call.op = "identify_card_type"
     /\ IsDigit(call.card_number)
     /\ Len(call.card_number) \in 15..19)
        => ret.card_type = SpecCardType(call.card_number)

ExpiryCalled ==
    /\ pc = "done"
    /\ call.op = "check_expiry"
    /\ IsDigit(call.month)
    /\ IsDigit(call.year)
    /\ Len(call.year) \in {2, 4}

\* A two-digit year yy is the year 20yy.
NormalizedYear(year) == IF Len(year) = 2 THEN 2000 + DecimalValue(year) ELSE DecimalValue(year)
\* MM/YY of a month and a year.
MonthSlashYear(m, y) ==
    <<DigitChars[(m \div 10) + 1], DigitChars[(m % 10) + 1], "/",
      DigitChars[((y % 100) \div 10) + 1], DigitChars[(y % 10) + 1]>>

\* C5: check_expiry on an all-digit month and a 2- or 4-digit year answers
\* "Invalid month" outside 1..12, else "Card expired (year)" for a year before the
\* current one, else "Card expired (month)" for an earlier month of the current
\* year, else valid with months_remaining = (expYear - currentYear)*12 +
\* (expMonth - currentMonth) and the expiry date as MM/YY; at 2024-06, 05/24 is
\* expired by month, 06/24 has 0 months left and 01/30 has 67.
C5_ExpiryVerdict ==
    ExpiryCalled =>
        LET m == DecimalValue(call.month)
            y == NormalizedYear(call.year)
            at2024_06 == call.current_year = 2024 /\ call.current_month = 6
        IN
        /\ IF m < 1 \/ m > 12 THEN ret = [valid |-> FALSE, reason |-> "Invalid month"]
           ELSE IF y < call.current_year THEN ret = [valid |-> FALSE, reason |-> "Card expired (year)"]
           ELSE IF y = call.current_year /\ m < call.current_month
                THEN ret = [valid |-> FALSE, reason |-> "Card expired (month)"]
           ELSE ret = [valid |-> TRUE,
                       months_remaining |-> (y - call.current_year) * 12 + (m - call.current_month),
                       expiry_date |-> MonthSlashYear(m, y)]
        /\ (at2024_06 /\ call.month = D(<<0, 5>>) /\ call.year = D(<<2, 4>>))
               => ret = [valid |-> FALSE, reason |-> "Card expired (month)"]
        /\ (at2024_06 /\ call.month = D(<<0, 6>>) /\ call.year = D(<<2, 4>>))
               => (ret.valid /\ ret.months_remaining = 0)
        /\ (at2024_06 /\ call.month = D(<<0, 1>>) /\ call.year = D(<<3, 0>>))
               => (ret.valid /\ ret.months_remaining = 67)

C5_Witness ==
    /\ ExpiryCalled
    /\ call.month = D(<<0, 1>>)
    /\ call.year = D(<<3, 0>>)
    /\ call.current_year = 2024
    /\ call.current_month = 6
    /\ ret.valid
    /\ ret.months_remaining = 67
    /\ ret.expiry_date = <<"0", "1", "/", "3", "0">>

ScoreCalled == pc = "done" /\ call.op = "calculate_score"

\* C6: calculate_score returns min(100, 20 + (40 if the checksum is valid) +
\* (40 + min(10, monthsRemaining // 12) if the expiry is valid)), the longevity
\* bonus added for every monthsRemaining >= 0, and the result lies in 0..100.
C6_ScoreFormula ==
    ScoreCalled =>
        LET luhn_part == IF call.luhn_result.valid THEN 40 ELSE 0
            expiry_part ==
                IF call.expiry_result.valid
                    THEN 40 + Min(10, call.expiry_result.months_remaining \div 12)
                    ELSE 0
        IN /\ ret.score = Min(100, 20 + luhn_part + expiry_part)
           /\ ret.score \in 0..100

\* C10: the score is 100 iff both the checksum and the expiry are valid, and lies
\* in 20..70 otherwise, so that score >= 80 is the overall_valid flag that
\* /api/validate reports.
C10_ScoreSeparatesValid ==
    /\ ScoreCalled =>
           LET both == call.luhn_result.valid /\ call.expiry_result.valid IN
           /\ (ret.score = 100) = both
           /\ ~both => (20 <= ret.score /\ ret.score <= 70)
           /\ (ret.score >= 80) = both
    /\ (pc = "done" /\ call.op = "/api/validate" /\ ret.status = 200) =>
           LET v == ret.body.validation IN
           /\ v.overall_valid = (v.luhn_algorithm.valid /\ v.expiry_check.valid)
           /\ (v.overall_score = 100) = v.overall_valid
           /\ (v.overall_score >= 80) = v.overall_valid
           /\ ~v.overall_valid => (20 <= v.overall_score /\ v.overall_score <= 70)

C10_Witness ==
    /\ pc = "done"
    /\ call.op = "/api/validate"
    /\ ret.status = 200
    /\ ~ret.body.validation.overall_valid
    /\ ret.body.validation.expiry_check.valid
    /\ ret.body.validation.overall_score = 70

-----------------------------------------------------------------------------
(* The properties checked of the handlers.                                 *)

HandlerAnswered == pc = "done" /\ call.op \in {"/api/validate", "/api/check"}

\* The format rules of the specification's parser on the stripped fields.
SpecFormatError(cc) ==
    LET parts == Split(cc) IN
    \/ Len(parts) # 4
    \/ LET number == Strip(parts[1])
           month == Strip(parts[2])
           year == Strip(parts[3])
           code == Strip(parts[4])
       IN \/ ~IsDigit(number)
          \/ Len(number) \notin 15..19
          \/ ~IsDigit(month)
          \/ ~IsDigit(year)
          \/ ~IsDigit(code)
          \/ Len(code) \notin {3, 4}

\* C1: both /api/validate and /api/check answer 400, with no report, to a
\* descriptor whose field count is not 4, whose account number is not 15 to 19
\* digits, whose expiry month or year is not all digits or whose security code
\* is not 3 or 4 digits, and accept every other descriptor.
C1_MalformedDescriptorRejected ==
    HandlerAnswered =>
        IF SpecFormatError(call.cc) THEN ret.status = 400 /\ "success" \notin DOMAIN ret.body
        ELSE ret.status = 200 /\ ret.body.success

\* What the parsing step of each handler lets through: four fields, and for
\* /api/check an all-digit account number.
ParsingAccepts(op, cc) ==
    /\ Len(Split(cc)) = 4
    /\ op = "/api/check" => IsDigit(Strip(Split(cc)[1]))

\* C9: every descriptor that the handler's parsing step accepts gets a complete
\* report (success = true) from /api/validate and /api/check, never an internal
\* error.
C9_AcceptedDescriptorGetsReport ==
    (HandlerAnswered /\ ParsingAccepts(call.op, call.cc)) =>
        (ret.status = 200 /\ ret.body.success)

-----------------------------------------------------------------------------
(* The properties checked of execute_all_shapi_functions.                  *)

\* The executor has run to its end, for /api/shapi/execute or for /api/check.
ExecutorReturned ==
    /\ pc = "done"
    /\ \/ call.op = "/api/shapi/execute"
       \/ (call.op = "/api/check" /\ call.full_shapi /\ ret.status = 200)
Report == IF call.op = "/api/shapi/execute" THEN ret.body.execution_summary ELSE ret.body.shapi.execution

\* The callables of the module: the attributes with no leading underscore that
\* can be called, and those of them that raise.
PublicCallables(mod) == {name \in DOMAIN mod : name[1] # "_" /\ mod[name] \in {"returns", "raises"}}
Raising(mod) == {name \in PublicCallables(mod) : mod[name] = "raises"}

AllTasksRanOnce ==
    /\ pc = "gather" => ret = NoRet
    /\ ExecutorReturned =>
           /\ Len(order) = Len(function_names)
           /\ \A i \in 1..Len(function_names) :
                  /\ completed[i] # Pending
                  /\ completed[i][1] = function_names[i]
                  /\ invoked[function_names[i]] = 1
           /\ Report.results = [name \in PublicCallables(shapi) |->
                                   IF name \in Raising(shapi)
                                       THEN [success |-> FALSE, error |-> "str(e)"]
                                       ELSE [success |-> TRUE, result |-> "value"]]

\* The step part of C8: a step of a task fills the slot of that task with the
\* outcome of its own callable and leaves every other slot, pending or not, as
\* it was.
TaskWritesOwnSlot ==
    (pc = "gather" /\ pc' = "gather") =>
        \E i \in 1..Len(completed) :
            /\ completed[i] = Pending
            /\ completed'[i] # Pending
            /\ completed'[i][1] = function_names[i]
            /\ \A j \in 1..Len(completed) \ {i} : completed'[j] = completed[j]

\* C8: under every order of the tasks the report is produced only after every
\* discovered callable has been invoked exactly once and has returned or failed;
\* a failing task cancels no sibling, each task writes only its own slot, and the
\* outcome mapping is the same for every order.
C8_EveryTaskRunsOnceInAnyOrder == []AllTasksRanOnce /\ [][TaskWritesOwnSlot]_vars

C8_Witness ==
    /\ ExecutorReturned
    /\ call.op = "/api/shapi/execute"
    /\ order = <<3, 1, 2>>
    /\ shapi[function_names[3]] = "raises"
    /\ Report.results[function_names[1]].success
    /\ Report.results[function_names[2]].success

=============================================================================
